---- MODULE Spec2Model ----
(***************************************************************************)
(* BuzzScope: the keyword collection and caching engine.                   *)
(*                                                                         *)
(* Part I models DataCollectionServiceV2 (src/src/services/                *)
(* data_collection_v2.py): one run of collect_keyword_data walks the four  *)
(* platforms in order, each step being one call of _collect_platform_data  *)
(* with its cache look-up, its collection pass and its cache write.        *)
(* Part II models DiscordIncrementalCollector's watermark                  *)
(* (src/src/collectors/discord_incremental_collector.py) and the Discord   *)
(* pass of DataCollectionService (src/data_collection_service.py).         *)
(***************************************************************************)
EXTENDS Integers, Sequences, FiniteSets, TLC

VARIABLES
    \* ---- Part I: DataCollectionServiceV2
    cache,      \* cache_dir/<platform>/<sanitized keyword>.json : file content
    summary,    \* cache_dir/collection_summary_<sanitized keyword>.json
    now,        \* the wall clock read by datetime.now()
    pc,         \* "idle" | "running": position of collect_keyword_data
    req,        \* the arguments of the running collect_keyword_data
    idx,        \* index of the next platform of the for loop
    results,    \* results['platforms'] built so far (kept after the return)
    invoked,    \* platforms whose collection pass was started in this run
    netFailed,  \* platforms one of whose fetch strategies failed in this run
    raised,     \* platforms whose call raised an exception in this run
    lastPut,    \* per cache file, the dict last handed to _save_cached_data
    runsLeft,   \* collect_keyword_data calls still to be explored
    faultsLeft, \* faults the environment may still inject
    \* ---- Part II: Discord watermark and DataCollectionService
    wmFile,     \* discord_last_collection.json: NoWatermark or Stored(instant)
    clock,      \* the wall clock of part II
    archive,    \* instants of the messages in the raw archive (discord_raw)
    dpc,        \* position inside the Discord pass of DataCollectionService
    dpass,      \* the locals and the outcome of the running / last Discord pass
    histCache,  \* the historical cache file written by the Discord pass
    advances,   \* direct update_last_collection_time calls still to be explored
    passesLeft, \* Discord passes still to be explored
    collected,  \* what the collect_new_data runs returned so far
    \* ---- Part III: the functions of the collectors and analyzers
    fcall,      \* the function applied: its name, its arguments, its result
    \* ---- Part IV: EventDrivenService
    mon,        \* hot posts, notifications published, checks still to be explored
    \* ---- Part V: collection passes of several platforms, interleaved
    par,        \* the passes in progress and the files they wrote
    \* ---- Part VI: DataCollectionService, its historical cache and storage
    legacy      \* the files of the service and its last call

varsV2 == <<cache, summary, now, pc, req, idx, results, invoked, netFailed, raised, lastPut, runsLeft, faultsLeft>>
varsWM == <<wmFile, clock, archive, dpc, dpass, histCache, advances, passesLeft,
           collected>>
varsExt == <<fcall, mon, par, legacy>>
vars == <<varsV2, varsWM, varsExt>>

(***************************************************************************)
(* Bounds of the model.                                                    *)
(***************************************************************************)
MaxRuns == 2        \* collect_keyword_data calls explored
MaxFaults == 1      \* faults (exception, failed fetch, failed write) injected
MaxTime == 2        \* last instant of the clock of part I
MaxItem == 2        \* distinct items a source can return
NumSubreddits == 1  \* per-community listings merged by RedditCollector
MaxClock == 2       \* last instant of the clock of part II
MaxAdvances == 2    \* direct update_last_collection_time calls explored
MaxPasses == 2      \* Discord passes of DataCollectionService explored
MaxMsgs == 2        \* messages in the raw archive
MaxLen == 3         \* longest list of posts handed to a function of part III
MaxIds == 2         \* distinct post ids in those lists
MaxTitle == 1       \* longest title handed to a matcher
MaxContent == 3     \* longest content handed to a matcher
MaxStories == 2     \* stories fetched by HackerNewsCollector.search_keyword
MaxShow == 1        \* Show HN / Ask HN stories fetched by the service
MaxChecks == 3      \* monitor_keywords calls explored
MaxRequested == 2   \* platforms requested from DataCollectionService
MaxEngagement == 1  \* largest score + descendants of a post
MaxItems == 2       \* posts handed to a monthly histogram
MaxMonth == 2       \* wall-clock months a timestamp can name
MaxTargets == 3     \* subreddits, story ids or videos of one network pass
MaxCalls == 2       \* calls of DataCollectionService.collect_keyword_data
MaxDay == 1         \* days that pass between the calls
MaxDaysBack == 2    \* largest days_back of a call
MaxNow == 3         \* latest instant (in days) of a search_keyword call

\* The configured max age of a cache entry (spec, "Staleness"); the code has none.
MaxAge == 1

\* posts[:100] of _collect_time_all_data
TopLimit == 100

\* most_common(10), limit: int = 10
TopContributorsLimit == 10

\* (view_count // 100) of SimpleHistoricalAnalyzer._get_interaction_count
ViewDivisor == 100

(***************************************************************************)
(* Part I.  Data                                                           *)
(***************************************************************************)
\* the for loop of collect_keyword_data
Platforms == <<"hackernews", "reddit", "youtube", "discord">>
PlatformSet == {Platforms[i] : i \in 1..Len(Platforms)}

\* Keywords are strings, modelled as sequences of characters.
Keywords == {<<"a", " ", "b">>, <<"a", "_", "b">>, <<"I", "o">>}

Lower(c) == CASE c = "A" -> "a" [] c = "B" -> "b" [] c = "I" -> "i"
              [] c = "O" -> "o" [] OTHER -> c

\* \w of the regular expression, on the characters used here
IsWordChar(c) == c \in {"a", "b", "i", "o", "_"}

\* re.sub(r'[^\w\-_]', '_', keyword.lower())
sanitize_keyword(kw) ==
    [i \in 1..Len(kw) |->
        IF IsWordChar(Lower(kw[i])) \/ Lower(kw[i]) = "-" THEN Lower(kw[i]) ELSE "_"]

Files == {sanitize_keyword(k) : k \in Keywords}

NoFile == [kind |-> "nofile"]
Corrupt == [kind |-> "corrupt"]

\* Items a source can return.
ItemIds == 1..MaxItem

\* A datetime object and its rendering by json.dump(..., default=str)
DateTime(t) == [type |-> "datetime", at |-> t]
DateStr(t) == [type |-> "str", at |-> t]

\* What _post_to_dict yields for item i of platform p: the __dict__ of a
\* RedditPost / YouTubePost (timestamp a datetime), the dict read from a
\* historical JSON file (hackernews), the dict built from a CSV row (discord,
\* which carries no post_id).
post_to_dict(p, i) ==
    CASE p \in {"reddit", "youtube"} ->
            [post_id |-> i, timestamp |-> DateTime(i)]
      [] p = "hackernews" ->
            [post_id |-> i, timestamp |-> DateStr(i)]
      [] OTHER ->
            [post_id |-> 0, timestamp |-> DateStr(i)]

\* json.dump(data, default=str) followed by json.load: objects json cannot
\* encode come back as their str().
JsonValue(v) == IF v.type = "datetime" THEN DateStr(v.at) ELSE v
JsonPost(d) == [d EXCEPT !.timestamp = JsonValue(d.timestamp)]
JsonRoundTrip(data) ==
    [data EXCEPT !.posts = [i \in 1..Len(data.posts) |-> JsonPost(data.posts[i])]]

(***************************************************************************)
(* Part I.  The environment of one collection pass                         *)
(***************************************************************************)
\* One fetch strategy's outcome: the matching items it returned, or a
\* network / API / file failure.  Reddit, the live source, answers anything;
\* the historical archives read for hackernews and discord are static input,
\* the same file content at every run (the read itself may fail).
Listings(p) == IF p = "reddit"
               THEN {<<>>} \cup {<<i>> : i \in ItemIds}
               ELSE {<<1>>}
Failed == [ok |-> FALSE, items |-> <<>>]
Fetch(p) == [ok : {TRUE}, items : Listings(p)] \cup {Failed}

\* The deployment modelled has no YOUTUBE_API_KEY (Config.PLATFORMS, the
\* default): YouTubeCollector.search_keyword returns [] without a network call.
YouTubeEnabled == FALSE

\* reddit: the global search, then one listing per configured subreddit;
\* hackernews, discord: one historical file; youtube: none when disabled,
\* else one search.
NumStrategies(p) ==
    CASE p = "reddit" -> 1 + NumSubreddits
      [] p = "youtube" -> IF YouTubeEnabled THEN 1 ELSE 0
      [] OTHER -> 1

RECURSIVE Concat(_)
Concat(ss) == IF ss = <<>> THEN <<>> ELSE Head(ss) \o Concat(Tail(ss))

Take(s, n) == SubSeq(s, 1, IF Len(s) < n THEN Len(s) ELSE n)

\* The items a pass returns.  Every strategy swallows its own failure (the
\* except branches of _search_global, of the subreddit loop, of
\* YouTubeCollector.search_keyword, of the per-file loops) and contributes
\* nothing; the results of the others are concatenated, without dedupe.
PassItems(p, fetches) ==
    LET merged == Concat([k \in 1..Len(fetches) |->
                            IF fetches[k].ok THEN fetches[k].items ELSE <<>>])
    IN  IF p \in {"reddit", "youtube"} THEN Take(merged, TopLimit) ELSE merged

(***************************************************************************)
(* Part I.  DataCollectionServiceV2                                        *)
(***************************************************************************)
\* _load_cached_data: json.load of the file, status overwritten by 'cached';
\* any failure to read or parse gives an error result.
load_cached_data(cell) ==
    IF cell = Corrupt
    THEN [status |-> "error", error |-> "json", posts |-> <<>>]
    ELSE [cell EXCEPT !.status = "cached"]

\* _save_cached_data: open(cache_file, 'w') and json.dump; an exception is
\* logged and swallowed.  The write succeeds, or open() fails and the file is
\* as before, or the dump stops part-way and leaves a truncated file.
WriteOutcomes == {"ok", "open_failed", "partial"}

save_cached_data(cell, data, w) ==
    CASE w = "ok" -> JsonRoundTrip(data)
      [] w = "open_failed" -> cell
      [] OTHER -> Corrupt

\* The result dict of lines 104-112.
PlatformResult(p, kw, exact, items, t) ==
    [status |-> "success",
     data_source |-> IF p \in {"hackernews", "discord"} THEN "cache" ELSE "time_all",
     total_posts |-> Len(items),
     posts |-> [i \in 1..Len(items) |-> post_to_dict(p, items[i])],
     collection_time |-> t,
     keyword |-> kw,
     exact_match |-> exact]

\* A service that never consults its cache (the test of line 91 always false).
UsesCacheNever(force, cell) == FALSE

\* Whether _collect_platform_data answers from the cache (line 91).
UsesCache(force, cell) == ~force /\ cell # NoFile

\* _collect_platform_data(platform, keyword, exact_match, force_refresh) on the
\* cache file content cell, at instant t, in the environment env (the
\* outcomes of the fetch strategies, whether the pass raises, the outcome of
\* the write).  Gives the returned dict (or that it raised), the file content
\* afterwards and whether a collection pass ran.
collect_platform_data(p, kw, exact, force, cell, env, t) ==
    IF UsesCache(force, cell)
    THEN [raised |-> FALSE, result |-> load_cached_data(cell),
          cell |-> cell, ran |-> FALSE, put |-> FALSE]
    ELSE IF env.raises
    THEN [raised |-> TRUE, result |-> [status |-> "error"],
          cell |-> cell, ran |-> TRUE, put |-> FALSE]
    ELSE LET result == PlatformResult(p, kw, exact, PassItems(p, env.fetches), t)
         IN  [raised |-> FALSE, result |-> result,
              cell |-> save_cached_data(cell, result, env.write),
              ran |-> TRUE, put |-> TRUE]

\* The except branch of collect_keyword_data (lines 70-76).
ErrorResult == [status |-> "error", error |-> "exception", posts |-> <<>>]

\* The environments of one pass, and the number of faults each injects.
Envs(p) == [raises : {FALSE},
            fetches : [1..NumStrategies(p) -> Fetch(p)],
            write : WriteOutcomes]
           \cup
           [raises : {TRUE},
            fetches : {[k \in 1..NumStrategies(p) |-> Failed]},
            write : {"ok"}]

EnvFaults(env) ==
    IF env.raises THEN 1
    ELSE Cardinality({k \in DOMAIN env.fetches : ~env.fetches[k].ok})
         + (IF env.write = "ok" THEN 0 ELSE 1)

\* The calls explored: three keywords, two of which differ only in a
\* character that _sanitize_keyword replaces, and both match modes.
Queries == {[keyword |-> <<"a", " ", "b">>, exact_match |-> TRUE],
            [keyword |-> <<"a", "_", "b">>, exact_match |-> FALSE],
            [keyword |-> <<"I", "o">>, exact_match |-> TRUE]}
Requests == {[keyword |-> q.keyword, exact_match |-> q.exact_match, force_refresh |-> fr] :
                q \in Queries, fr \in BOOLEAN}
NoReq == [keyword |-> <<>>, exact_match |-> FALSE, force_refresh |-> FALSE]
NoResults == [p \in {} |-> ErrorResult]
NoPut == [status |-> "none"]

\* collect_keyword_data is called.
StartRun ==
    /\ pc = "idle"
    /\ runsLeft > 0
    /\ \E r \in Requests : req' = r
    /\ pc' = "running"
    /\ idx' = 1
    /\ results' = NoResults
    /\ invoked' = {}
    /\ netFailed' = {}
    /\ raised' = {}
    /\ runsLeft' = runsLeft - 1
    /\ UNCHANGED <<cache, summary, now, lastPut, faultsLeft>>
    /\ UNCHANGED <<varsWM, varsExt>>

\* A loop without the try/except of lines 65-76: an exception ends the loop.
NextIndexAbort(i, exception) == IF exception THEN Len(Platforms) + 1 ELSE i + 1

\* The try/except inside the for loop: an exception of one platform's call
\* is caught and recorded, and the loop goes on with the next platform.
NextIndex(i, exception) == i + 1
ReportEntry(out) == IF out.raised THEN ErrorResult ELSE out.result

\* One iteration of the for loop of collect_keyword_data: the call of
\* _collect_platform_data for the next platform inside its try/except.
CollectPlatform ==
    /\ pc = "running"
    /\ idx <= Len(Platforms)
    /\ LET p == Platforms[idx]
           f == sanitize_keyword(req.keyword)
       IN  \E env \in Envs(p) :
             LET out == collect_platform_data(p, req.keyword, req.exact_match,
                                              req.force_refresh, cache[p][f], env, now)
             IN  /\ IF out.ran THEN EnvFaults(env) <= faultsLeft
                               ELSE env = CHOOSE e \in Envs(p) : EnvFaults(e) = 0
                 /\ faultsLeft' = IF out.ran THEN faultsLeft - EnvFaults(env)
                                              ELSE faultsLeft
                 /\ cache' = [cache EXCEPT ![p][f] = out.cell]
                 /\ results' = results @@ (p :> ReportEntry(out))
                 /\ idx' = NextIndex(idx, out.raised)
                 /\ raised' = IF out.raised THEN raised \cup {p} ELSE raised
                 /\ invoked' = IF out.ran THEN invoked \cup {p} ELSE invoked
                 /\ netFailed' =
                        IF out.ran /\ ~out.raised
                           /\ \E k \in 1..NumStrategies(p) : ~env.fetches[k].ok
                        THEN netFailed \cup {p} ELSE netFailed
                 /\ lastPut' = IF out.put
                               THEN [lastPut EXCEPT ![p][f] = out.result]
                               ELSE lastPut
    /\ UNCHANGED <<summary, now, pc, req, runsLeft>>
    /\ UNCHANGED <<varsWM, varsExt>>

\* _save_collection_summary: the whole results dict written to the summary
\* file of the keyword; a failure is logged and swallowed.
save_collection_summary(old, data, w) ==
    CASE w = "ok" -> [platforms |-> [p \in DOMAIN data |->
                                        IF data[p].status = "error" THEN data[p]
                                        ELSE JsonRoundTrip(data[p])]]
      [] w = "open_failed" -> old
      [] OTHER -> Corrupt

\* The loop is over: the summary is saved and results returned.
FinishRun ==
    /\ pc = "running"
    /\ idx > Len(Platforms)
    /\ \E w \in WriteOutcomes :
         /\ (w # "ok") => faultsLeft > 0
         /\ faultsLeft' = IF w = "ok" THEN faultsLeft ELSE faultsLeft - 1
         /\ summary' = [summary EXCEPT ![sanitize_keyword(req.keyword)] =
                        save_collection_summary(@, results, w)]
    /\ pc' = "idle"
    /\ UNCHANGED <<cache, now, req, idx, results, invoked, netFailed, raised, lastPut,
                   runsLeft>>
    /\ UNCHANGED <<varsWM, varsExt>>

\* Time passes between two calls (instants are counted from the first call).
Tick ==
    /\ pc = "idle"
    /\ DOMAIN results # {}
    /\ runsLeft > 0
    /\ now < MaxTime
    /\ now' = now + 1
    /\ UNCHANGED <<cache, summary, pc, req, idx, results, invoked, netFailed, raised,
                   lastPut, runsLeft, faultsLeft>>
    /\ UNCHANGED <<varsWM, varsExt>>

InitV2(nruns, nfaults) ==
    /\ runsLeft = nruns
    /\ faultsLeft = nfaults
    /\ cache = [p \in PlatformSet |-> [f \in Files |-> NoFile]]
    /\ summary = [f \in Files |-> NoFile]
    /\ now = 0
    /\ pc = "idle"
    /\ req = NoReq
    /\ idx = 1
    /\ results = NoResults
    /\ invoked = {}
    /\ netFailed = {}
    /\ raised = {}
    /\ lastPut = [p \in PlatformSet |-> [f \in Files |-> NoPut]]

(***************************************************************************)
(* Part II.  DiscordIncrementalCollector and the Discord pass of           *)
(* DataCollectionService                                                   *)
(***************************************************************************)
\* timedelta(days=7) of get_last_collection_time, in clock units
DefaultLookback == 7

\* The raw archive: CSV exports, each message in one file.
RawFiles == {"a.csv", "b.csv"}
Msgs == [ts : 1..MaxClock, file : RawFiles]

NoWatermark == [exists |-> FALSE, at |-> 0]
Stored(t) == [exists |-> TRUE, at |-> t]

\* get_last_collection_time: the stored instant, or 7 days before now.
get_last_collection_time(file, t) ==
    IF file.exists THEN file.at ELSE t - DefaultLookback

\* update_last_collection_time(timestamp): the file is rewritten with the
\* instant given (now when None), whatever it held.
update_last_collection_time(file, timestamp) == Stored(timestamp)

\* _process_csv_file over every file: the messages later than since; a file
\* that cannot be read contributes nothing (the error is logged).
NewMessages(arch, since, unreadable) ==
    {m \in arch : m.file \notin unreadable /\ m.ts > since}

\* A collect_new_data that rewrites the watermark on every run.
CollectAlwaysAdvance(file, arch, t, unreadable) ==
    [new |-> NewMessages(arch, get_last_collection_time(file, t), unreadable),
     file |-> update_last_collection_time(file, t)]

\* collect_new_data at instant t: the new messages, and the watermark file
\* afterwards (rewritten with now iff some new message was found).
collect_new_data(file, arch, t, unreadable) ==
    LET new == NewMessages(arch, get_last_collection_time(file, t), unreadable)
    IN  [new |-> new,
         file |-> IF new # {} THEN update_last_collection_time(file, t) ELSE file]

\* A set of messages as the list the directory walk yields: file by file,
\* rows in time order.
FileRank(f) == IF f = "a.csv" THEN 1 ELSE 2
Rank(m) == FileRank(m.file) * (MaxClock + 1) + m.ts
RECURSIVE AsList(_)
AsList(S) ==
    IF S = {} THEN <<>>
    ELSE LET m == CHOOSE x \in S : \A y \in S : Rank(x) <= Rank(y)
         IN  <<m>> \o AsList(S \ {m})

\* DiscordIncrementalCollector.search_keyword at instant t: collect_new_data
\* first, then the archive search from the cutoff, then the new messages
\* appended; clean_posts drops nothing here.
search_keyword(file, arch, t, days_back, unreadable) ==
    LET c == collect_new_data(file, arch, t, unreadable)
        found == {m \in arch : m.file \notin unreadable /\ m.ts >= t - days_back}
    IN  [posts |-> AsList(found) \o AsList(c.new), file |-> c.file]

DaysBack == {1, 30}

\* The record of the collect_new_data runs: the messages returned by some
\* run, those returned by the last run, its instant, the number of runs and
\* whether some run could not read a file of the archive.
NothingCollected == [returned |-> {}, new |-> {}, at |-> 0, runs |-> 0, unread |-> FALSE]
Record(log, new, t, unreadable) ==
    [returned |-> log.returned \cup new, new |-> new, at |-> t,
     runs |-> log.runs + 1, unread |-> log.unread \/ unreadable # {}]
IdlePass == [status |-> "none", days_back |-> 0, wmBefore |-> NoWatermark,
             posts |-> <<>>, wroteWatermark |-> FALSE, wroteCache |-> FALSE]

\* collect_keyword_data of DataCollectionService reaches the discord platform.
DStart ==
    /\ dpc = "idle"
    /\ passesLeft > 0
    /\ passesLeft' = passesLeft - 1
    /\ \E d \in DaysBack :
         dpass' = [IdlePass EXCEPT !.status = "running", !.days_back = d,
                                   !.wmBefore = wmFile]
    /\ dpc' = "collect"
    /\ UNCHANGED <<wmFile, clock, archive, histCache, advances>>
    /\ UNCHANGED <<varsV2, varsExt, collected>>

\* _collect_discord_data, line 216: collector.collect_new_data(days_back=1).
DCollectNew ==
    /\ dpc = "collect"
    /\ \E unreadable \in SUBSET RawFiles :
         LET c == collect_new_data(wmFile, archive, clock, unreadable)
         IN  /\ wmFile' = c.file
             /\ dpass' = [dpass EXCEPT !.wroteWatermark = @ \/ (c.new # {})]
             /\ collected' = Record(collected, c.new, clock, unreadable)
    /\ dpc' = "search"
    /\ UNCHANGED <<clock, archive, histCache, advances, passesLeft>>
    /\ UNCHANGED <<varsV2, varsExt>>

\* _collect_discord_data, line 220: collector.search_keyword(...).
DSearch ==
    /\ dpc = "search"
    /\ \E unreadable \in SUBSET RawFiles :
         LET r == search_keyword(wmFile, archive, clock, dpass.days_back, unreadable)
         IN  /\ wmFile' = r.file
             /\ dpass' = [dpass EXCEPT !.posts = r.posts,
                                       !.wroteWatermark = @ \/ (r.file # wmFile)]
             /\ collected' = Record(collected,
                                    collect_new_data(wmFile, archive, clock, unreadable).new,
                                    clock, unreadable)
    /\ dpc' = "save"
    /\ UNCHANGED <<clock, archive, histCache, advances, passesLeft>>
    /\ UNCHANGED <<varsV2, varsExt>>

\* Lines 117-151: with posts, storage.save_posts and _save_historical_cache
\* (either may raise, which the except branch turns into an error entry);
\* without, a no_data entry.
DSave ==
    /\ dpc = "save"
    /\ \/ /\ dpass.posts # <<>>
          /\ histCache' = [total_posts |-> Len(dpass.posts), posts |-> dpass.posts]
          /\ dpass' = [dpass EXCEPT !.status = "success", !.wroteCache = TRUE]
       \/ /\ dpass.posts # <<>>
          /\ histCache' = histCache
          /\ dpass' = [dpass EXCEPT !.status = "error"]
       \/ /\ dpass.posts = <<>>
          /\ histCache' = histCache
          /\ dpass' = [dpass EXCEPT !.status = "no_data"]
    /\ dpc' = "idle"
    /\ UNCHANGED <<wmFile, clock, archive, advances, passesLeft>>
    /\ UNCHANGED <<varsV2, varsExt, collected>>

\* The pass is abandoned before it completes (the process is interrupted).
DAbandon ==
    /\ dpc \in {"collect", "search", "save"}
    /\ dpass' = [dpass EXCEPT !.status = "abandoned"]
    /\ dpc' = "idle"
    /\ UNCHANGED <<wmFile, clock, archive, histCache, advances, passesLeft>>
    /\ UNCHANGED <<varsV2, varsExt, collected>>

\* A caller advances the watermark to an instant of its choice.
Advance ==
    /\ dpc = "idle"
    /\ advances > 0
    /\ advances' = advances - 1
    /\ \E t \in 0..clock : wmFile' = update_last_collection_time(wmFile, t)
    /\ UNCHANGED <<clock, archive, dpc, dpass, histCache, passesLeft>>
    /\ UNCHANGED <<varsV2, varsExt, collected>>

\* A message is exported into the raw archive; its timestamp is not in the future.
Arrive ==
    /\ Cardinality(archive) < MaxMsgs
    /\ \E m \in Msgs \ archive : m.ts <= clock /\ archive' = archive \cup {m}
    /\ UNCHANGED <<wmFile, clock, dpc, dpass, histCache, advances, passesLeft>>
    /\ UNCHANGED <<varsV2, varsExt, collected>>

ClockTick ==
    /\ clock < MaxClock
    /\ clock' = clock + 1
    /\ UNCHANGED <<wmFile, archive, dpc, dpass, histCache, advances, passesLeft>>
    /\ UNCHANGED <<varsV2, varsExt, collected>>

InitWMWith(nadv, npass) ==
    /\ wmFile = NoWatermark
    /\ clock = 0
    /\ archive = {}
    /\ dpc = "idle"
    /\ dpass = IdlePass
    /\ histCache = NoFile
    /\ advances = nadv
    /\ passesLeft = npass
    /\ collected = NothingCollected

\* Part II at rest while part I runs, and conversely.
InitWM == InitWMWith(0, 0)
InitV2Idle == InitV2(0, 0)

\* No function of part III applied.
NoCall == [stage |-> "none"]
NoMonitor == [stage |-> "none"]
NoPasses == [stage |-> "none"]
NoService == [stage |-> "none"]
InitExtIdle == fcall = NoCall /\ mon = NoMonitor /\ par = NoPasses /\ legacy = NoService

\* Two calls, with few faults.
Init == InitV2(MaxRuns, MaxFaults) /\ InitWM /\ InitExtIdle

\* One call fewer, with any number of faults.
AnyFaults == Len(Platforms) * (2 + NumSubreddits)
InitIso == InitV2(MaxRuns - 1, AnyFaults) /\ InitWM /\ InitExtIdle

Next == StartRun \/ CollectPlatform \/ FinishRun \/ Tick

Spec == Init /\ [][Next]_vars

\* The watermark and the Discord pass.
InitDiscord == InitV2Idle /\ InitWMWith(MaxAdvances, MaxPasses) /\ InitExtIdle
NextDiscord == DStart \/ DCollectNew \/ DSearch \/ DSave \/ DAbandon
               \/ Advance \/ Arrive \/ ClockTick
SpecWM == InitDiscord /\ [][NextDiscord]_vars

\* The Discord passes alone: only collect_new_data writes the watermark.
InitIncremental == InitV2Idle /\ InitWMWith(0, MaxPasses) /\ InitExtIdle
NextIncremental == DStart \/ DCollectNew \/ DSearch \/ DSave \/ DAbandon
                   \/ Arrive \/ ClockTick
SpecIncremental == InitIncremental /\ [][NextIncremental]_vars

NextIso == StartRun \/ CollectPlatform \/ FinishRun
SpecIso == InitIso /\ [][NextIso]_vars

(***************************************************************************)
(* Part III.  Functions of the collectors and analyzers.  Each is applied  *)
(* to an input drawn by the initial state; fcall records the application.  *)
(***************************************************************************)
Input(fn, arg) == [stage |-> "input", fn |-> fn, arg |-> arg]
Done(fn, arg, out) == [stage |-> "done", fn |-> fn, arg |-> arg, out |-> out]
Rest == InitV2Idle /\ InitWM /\ mon = NoMonitor /\ par = NoPasses /\ legacy = NoService

\* All sequences over S of length at most n.
SeqsUpTo(S, n) == UNION {[1..k -> S] : k \in 0..n}

\* ---- HackerNewsCollector._remove_duplicates
\* Posts as far as dedupe sees them: the post_id and the rest of the post.
DedupePosts == [post_id : 1..MaxIds, body : {"x", "y"}]
DedupeInputs == SeqsUpTo(DedupePosts, MaxLen)

\* The loop of _remove_duplicates from position i on, with its two locals.
RECURSIVE remove_duplicates_from(_, _, _, _)
remove_duplicates_from(posts, i, seen_ids, unique_posts) ==
    IF i > Len(posts) THEN unique_posts
    ELSE IF posts[i].post_id \notin seen_ids
         THEN remove_duplicates_from(posts, i + 1, seen_ids \cup {posts[i].post_id},
                                     Append(unique_posts, posts[i]))
         ELSE remove_duplicates_from(posts, i + 1, seen_ids, unique_posts)

\* The loop of collect_reddit_historical: a dict keyed by the id, each post
\* stored over the one already there (the key keeps its first position).
RECURSIVE dict_dedupe_from(_, _, _)
dict_dedupe_from(posts, i, unique_posts) ==
    IF i > Len(posts) THEN unique_posts
    ELSE LET hit == {k \in 1..Len(unique_posts) : unique_posts[k].post_id = posts[i].post_id}
         IN  IF hit = {}
             THEN dict_dedupe_from(posts, i + 1, Append(unique_posts, posts[i]))
             ELSE dict_dedupe_from(posts, i + 1,
                     [k \in 1..Len(unique_posts) |->
                         IF k \in hit THEN posts[i] ELSE unique_posts[k]])
KeepLast(posts) == dict_dedupe_from(posts, 1, <<>>)

remove_duplicates(posts) == remove_duplicates_from(posts, 1, {}, <<>>)

InitDedupe == Rest /\ fcall \in {Input("remove_duplicates", x) : x \in DedupeInputs}
ApplyDedupe ==
    /\ fcall.stage = "input"
    /\ fcall.fn = "remove_duplicates"
    /\ fcall' = Done("remove_duplicates", fcall.arg, remove_duplicates(fcall.arg))
    /\ UNCHANGED <<varsV2, varsWM, mon, par, legacy>>
NextDedupe == ApplyDedupe
SpecDedupe == InitDedupe /\ [][NextDedupe]_vars

\* ---- The keyword matchers
\* Strings are sequences of characters.
Chars == {"a", "A", "b", " ", "+"}
MatchKeywords == {<<"a">>, <<"A">>, <<"a", "b">>, <<"a", " ", "b">>, <<"a", "+">>}
Titles == SeqsUpTo(Chars, MaxTitle)
Contents == SeqsUpTo(Chars, MaxContent)
MatchInputs == [title : Titles, content : Contents, keyword : MatchKeywords,
                exact_match : BOOLEAN]

\* str.lower()
LowerStr(s) == [i \in 1..Len(s) |-> Lower(s[i])]
\* \w of the re module
WordChar(c) == IsWordChar(Lower(c))
\* text[p : p + len(kw)] == kw
OccursAt(text, kw, p) ==
    /\ p >= 1
    /\ p + Len(kw) - 1 <= Len(text)
    /\ \A k \in 1..Len(kw) : text[p + k - 1] = kw[k]
\* kw in text
Contains(text, kw) == \E p \in 1..(Len(text) + 1) : OccursAt(text, kw, p)
\* \b just before position p of text
WordAt(text, q) == q \in 1..Len(text) /\ WordChar(text[q])
Boundary(text, p) == WordAt(text, p - 1) # WordAt(text, p)
\* re.search(r'\b' + re.escape(kw) + r'\b', text)
SearchWholeWord(text, kw) ==
    \E p \in 1..(Len(text) + 1) :
        /\ OccursAt(text, kw, p)
        /\ Boundary(text, p)
        /\ Boundary(text, p + Len(kw))
\* str.split(): the maximal runs of non-blank characters
RECURSIVE SplitFrom(_, _, _)
SplitFrom(s, i, word) ==
    IF i > Len(s) THEN (IF word = <<>> THEN <<>> ELSE <<word>>)
    ELSE IF s[i] = " "
         THEN (IF word = <<>> THEN <<>> ELSE <<word>>) \o SplitFrom(s, i + 1, <<>>)
         ELSE SplitFrom(s, i + 1, Append(word, s[i]))
Split(s) == SplitFrom(s, 1, <<>>)

\* BaseCollector._exact_phrase_match (re.IGNORECASE)
exact_phrase_match(text, phrase) == SearchWholeWord(LowerStr(text), LowerStr(phrase))

\* BaseCollector.extract_keyword_mentions, for one post: is it kept?
extract_keyword_mentions(post, keyword, exact_match) ==
    LET keyword_lower == LowerStr(keyword)
        title_lower == LowerStr(post.title)
        content_lower == LowerStr(post.content)
    IN  IF exact_match
        THEN exact_phrase_match(title_lower, keyword_lower)
             \/ exact_phrase_match(content_lower, keyword_lower)
        ELSE Contains(title_lower, keyword_lower) \/ Contains(content_lower, keyword_lower)

\* DataCollectionServiceV2._contains_keyword: the keyword is used as given
contains_keyword_v2(text, keyword, exact_match) ==
    IF text = <<>> \/ keyword = <<>> THEN FALSE
    ELSE IF exact_match THEN SearchWholeWord(LowerStr(text), keyword)
         ELSE Contains(LowerStr(text), keyword)

\* DataCollectionServiceV2._filter_posts_by_keyword, for one post
filter_posts_by_keyword(post, keyword, exact_match) ==
    contains_keyword_v2(post.title \o <<" ">> \o post.content, LowerStr(keyword), exact_match)

\* DataCollectionServiceV2._search_discord_community, for one row
search_discord_community(post, keyword, exact_match) ==
    contains_keyword_v2(post.content, keyword, exact_match)

\* DiscordIncrementalCollector._contains_keyword
contains_keyword_incremental(content, keyword, exact_match) ==
    IF content = <<>> \/ keyword = <<>> THEN FALSE
    ELSE IF exact_match THEN Contains(LowerStr(content), LowerStr(keyword))
         ELSE LET keyword_words == Split(LowerStr(keyword))
              IN  \A k \in 1..Len(keyword_words) :
                     Contains(LowerStr(content), keyword_words[k])

\* HistoricalAnalysisService._contains_keyword
contains_keyword_analysis(text, keyword, exact_match) ==
    IF text = <<>> \/ keyword = <<>> THEN FALSE
    ELSE IF exact_match THEN Contains(LowerStr(text), LowerStr(keyword))
         ELSE SearchWholeWord(LowerStr(text), LowerStr(keyword))

Matchers == {"extract_keyword_mentions", "filter_posts_by_keyword",
             "search_discord_community", "contains_keyword_incremental",
             "contains_keyword_analysis"}

\* What matcher fn answers for the post and keyword of arg in the given mode.
Match(fn, arg, exact_match) ==
    CASE fn = "extract_keyword_mentions" ->
            extract_keyword_mentions(arg, arg.keyword, exact_match)
      [] fn = "filter_posts_by_keyword" ->
            filter_posts_by_keyword(arg, arg.keyword, exact_match)
      [] fn = "search_discord_community" ->
            search_discord_community(arg, arg.keyword, exact_match)
      [] fn = "contains_keyword_incremental" ->
            contains_keyword_incremental(arg.content, arg.keyword, exact_match)
      [] OTHER ->
            contains_keyword_analysis(arg.content, arg.keyword, exact_match)

\* The texts of the post of arg that matcher fn looks at.
TextsOf(fn, arg) ==
    CASE fn = "extract_keyword_mentions" -> {arg.title, arg.content}
      [] fn = "filter_posts_by_keyword" -> {arg.title \o <<" ">> \o arg.content}
      [] OTHER -> {arg.content}

InitMatch == Rest /\ fcall \in {Input("match", x) : x \in MatchInputs}
ApplyMatch(fn) ==
    /\ fcall.stage = "input"
    /\ fcall.fn = "match"
    /\ fcall' = Done(fn, fcall.arg, Match(fn, fcall.arg, fcall.arg.exact_match))
    /\ UNCHANGED <<varsV2, varsWM, mon, par, legacy>>
ApplyExtract == ApplyMatch("extract_keyword_mentions")
ApplyFilterV2 == ApplyMatch("filter_posts_by_keyword")
ApplyDiscordV2 == ApplyMatch("search_discord_community")
ApplyIncremental == ApplyMatch("contains_keyword_incremental")
ApplyAnalysis == ApplyMatch("contains_keyword_analysis")
NextMatch == ApplyExtract \/ ApplyFilterV2 \/ ApplyDiscordV2 \/ ApplyIncremental
             \/ ApplyAnalysis
SpecMatch == InitMatch /\ [][NextMatch]_vars

\* ---- HackerNewsCollector.search_keyword and the Hacker News step of
\* ---- DataCollectionService.collect_keyword_data
\* Candidate stories: recent tells whether timestamp >= cutoff_date.
FallbackContents == {<<"a">>, <<"a", "b">>, <<"b">>}
Stories == [post_id : 1..MaxIds, title : {<<>>}, content : FallbackContents,
            recent : BOOLEAN]
FallbackInputs == [stories : SeqsUpTo(Stories, MaxStories),
                   show : SeqsUpTo(Stories, MaxShow),
                   keyword : {<<"a">>, <<"b">>},
                   exact_match : BOOLEAN]

\* BaseCollector.extract_keyword_mentions on a list
mentions(posts, keyword, exact_match) ==
    LET Keep(post) == extract_keyword_mentions(post, keyword, exact_match)
    IN  SelectSeq(posts, Keep)

\* BaseCollector.filter_by_date_range
filter_by_date_range(posts) ==
    LET Keep(post) == post.recent
    IN  SelectSeq(posts, Keep)

\* HackerNewsCollector.search_keyword on the fetched stories: dedupe, match,
\* date filter, and the substring pass when the exact pass found nothing.
hn_search_keyword(all_posts, keyword, exact_match) ==
    LET unique_posts == remove_duplicates(all_posts)
        filtered_posts == filter_by_date_range(mentions(unique_posts, keyword, exact_match))
    IN  IF Len(filtered_posts) = 0 /\ exact_match
        THEN filter_by_date_range(mentions(unique_posts, keyword, FALSE))
        ELSE filtered_posts

\* DataCollectionService._collect_hackernews_data
collect_hackernews_data(stories, show, keyword, exact_match) ==
    remove_duplicates(hn_search_keyword(stories \o show, keyword, exact_match)
                      \o mentions(show, keyword, exact_match))

\* What DataCollectionService.collect_keyword_data records for the Hacker
\* News step: the report (results), the cache file of _save_historical_cache.
hn_step(arg) ==
    LET posts == collect_hackernews_data(arg.stories, arg.show, arg.keyword, arg.exact_match)
    IN  [posts |-> posts,
         report |-> [keyword |-> arg.keyword,
                     exact_match |-> arg.exact_match,
                     status |-> IF posts # <<>> THEN "success" ELSE "no_data",
                     posts_collected |-> Len(posts)],
         cache |-> IF posts # <<>>
                   THEN [keyword |-> arg.keyword, platform |-> "hackernews",
                         total_posts |-> Len(posts), posts |-> posts]
                   ELSE NoFile]

InitFallback == Rest /\ fcall \in {Input("hn_step", x) : x \in FallbackInputs}
ApplyHackerNewsStep ==
    /\ fcall.stage = "input"
    /\ fcall.fn = "hn_step"
    /\ fcall' = Done("hn_step", fcall.arg, hn_step(fcall.arg))
    /\ UNCHANGED <<varsV2, varsWM, mon, par, legacy>>
NextFallback == ApplyHackerNewsStep
SpecFallback == InitFallback /\ [][NextFallback]_vars

\* ---- DataCollectionService.collect_keyword_data: the report
\* The names a caller may request; the service has a collector for the first two.
RequestedNames == {"hackernews", "reddit", "mastodon"}
KnownCollectors == {"hackernews", "reddit"}
\* What a platform's collection does: returns posts, returns none, raises.
Outcomes == {"posts", "empty", "raises"}
ReportInputs == [platforms : SeqsUpTo(RequestedNames, MaxRequested),
                 outcome : [KnownCollectors -> Outcomes],
                 use_historical : BOOLEAN,
                 historical_exists : BOOLEAN,
                 summary_ok : BOOLEAN]

\* The body of the for loop (lines 94-151) for one platform, on the
\* results['platforms'] dict built so far.
report_step(platform_results, platform, outcome) ==
    IF platform \notin KnownCollectors THEN platform_results
    ELSE LET entry == CASE outcome[platform] = "posts" ->
                              [status |-> "success", posts_collected |-> 1]
                        [] outcome[platform] = "empty" ->
                              [status |-> "no_data", posts_collected |-> 0]
                        [] OTHER ->
                              [status |-> "error", posts_collected |-> 0]
         IN  [p \in DOMAIN platform_results \cup {platform} |->
                 IF p = platform THEN entry ELSE platform_results[p]]

RECURSIVE report_loop(_, _, _, _)
report_loop(platform_results, platforms, i, outcome) ==
    IF i > Len(platforms) THEN platform_results
    ELSE report_loop(report_step(platform_results, platforms[i], outcome),
                     platforms, i + 1, outcome)

NoEntries == [p \in {} |-> [status |-> "none", posts_collected |-> 0]]

\* DataCollectionService.collect_keyword_data: what the caller gets.
legacy_collect_keyword_data(arg) ==
    IF arg.use_historical /\ arg.historical_exists
    THEN [kind |-> "historical", platforms |-> NoEntries]
    ELSE IF ~arg.summary_ok
    THEN [kind |-> "raised", platforms |-> NoEntries]
    ELSE [kind |-> "report",
          platforms |-> report_loop(NoEntries, arg.platforms, 1, arg.outcome)]

InitReport == Rest /\ fcall \in {Input("collect_keyword_data", x) : x \in ReportInputs}
ApplyLegacyCollect ==
    /\ fcall.stage = "input"
    /\ fcall.fn = "collect_keyword_data"
    /\ fcall' = Done("collect_keyword_data", fcall.arg, legacy_collect_keyword_data(fcall.arg))
    /\ UNCHANGED <<varsV2, varsWM, mon, par, legacy>>
NextReport == ApplyLegacyCollect
SpecReport == InitReport /\ [][NextReport]_vars

\* ---- Top contributors
\* Posts as far as the metrics see them: the author ('' when missing) and
\* score + descendants.
MetricPosts == [author : {"x", "y", ""}, engagement : 0..MaxEngagement]
MetricInputs == SeqsUpTo(MetricPosts, MaxLen)

CountOf(posts, author) == Cardinality({i \in 1..Len(posts) : posts[i].author = author})
EngagementOf(posts, author) ==
    LET RECURSIVE Sum(_)
        Sum(i) == IF i > Len(posts) THEN 0
                  ELSE (IF posts[i].author = author THEN posts[i].engagement ELSE 0)
                       + Sum(i + 1)
    IN  Sum(1)

\* Counter(author for post in posts if author): the authors in the order in
\* which the Counter first met them.
RECURSIVE counter_keys(_, _, _)
counter_keys(posts, i, keys) ==
    IF i > Len(posts) THEN keys
    ELSE IF posts[i].author # "" /\ \A k \in 1..Len(keys) : keys[k] # posts[i].author
         THEN counter_keys(posts, i + 1, Append(keys, posts[i].author))
         ELSE counter_keys(posts, i + 1, keys)

\* sorted(..., key=count, reverse=True): a stable sort, equal counts keep
\* their order.  Inserts author after the entries that count at least as much.
InsertByCount(sorted, entry) ==
    LET ahead == Cardinality({k \in 1..Len(sorted) : sorted[k].post_count >= entry.post_count})
    IN  SubSeq(sorted, 1, ahead) \o <<entry>> \o SubSeq(sorted, ahead + 1, Len(sorted))
RECURSIVE stable_sort_desc(_, _, _)
stable_sort_desc(entries, i, sorted) ==
    IF i > Len(entries) THEN sorted
    ELSE stable_sort_desc(entries, i + 1, InsertByCount(sorted, entries[i]))

\* Counter(...).most_common(10) of HistoricalAnalysisV2.calculate_platform_metrics
\* and HackerNewsParquetAnalyzer.calculate_metrics
most_common(posts) ==
    LET keys == counter_keys(posts, 1, <<>>)
        entries == [k \in 1..Len(keys) |->
                       [author |-> keys[k], post_count |-> CountOf(posts, keys[k])]]
    IN  Take(stable_sort_desc(entries, 1, <<>>), TopContributorsLimit)

\* HackerNewsAnalyzer.get_top_contributors: the groups of df.groupby('author')
\* sorted by total_engagement, descending; the order of groups of equal
\* engagement is whatever the sort leaves.
GroupAuthors(posts) == {posts[i].author : i \in 1..Len(posts)}
EngagementOrders(posts) ==
    {order \in [1..Cardinality(GroupAuthors(posts)) -> GroupAuthors(posts)] :
        /\ \A i, j \in DOMAIN order : i # j => order[i] # order[j]
        /\ \A i, j \in DOMAIN order :
              i < j => EngagementOf(posts, order[i]) >= EngagementOf(posts, order[j])}
get_top_contributors(posts, order) ==
    Take([k \in DOMAIN order |->
             [author |-> order[k], post_count |-> CountOf(posts, order[k])]],
         TopContributorsLimit)

InitTop == Rest /\ fcall \in {Input("top_contributors", x) : x \in MetricInputs}
ApplyMostCommon ==
    /\ fcall.stage = "input"
    /\ fcall.fn = "top_contributors"
    /\ fcall' = Done("most_common", fcall.arg, most_common(fcall.arg))
    /\ UNCHANGED <<varsV2, varsWM, mon, par, legacy>>
ApplyGetTopContributors ==
    /\ fcall.stage = "input"
    /\ fcall.fn = "top_contributors"
    /\ \E order \in EngagementOrders(fcall.arg) :
          fcall' = Done("get_top_contributors", fcall.arg,
                        get_top_contributors(fcall.arg, order))
    /\ UNCHANGED <<varsV2, varsWM, mon, par, legacy>>
NextTop == ApplyMostCommon \/ ApplyGetTopContributors
SpecTop == InitTop /\ [][NextTop]_vars

\* ---- Monthly histogram
\* A timestamp string as far as the parsers tell strings apart: the wall-clock
\* month (1 is 2024-01), whether it is the last evening of that month
\* (23:30:00 of the last day) or the middle of it, the separator between date
\* and time and what follows the seconds.  sep = "" is the empty string ''.
NoTimestamp == [month |-> 0, late |-> FALSE, sep |-> "", suffix |-> ""]
Timestamps ==
    {ts \in [month : 1..MaxMonth, late : BOOLEAN, sep : {"T", " "},
             suffix : {"", "Z", "+00:00", "-05:00", " UTC"}] :
        /\ ts.suffix = " UTC" => ts.sep = " "
        /\ ts.suffix = "Z" => ts.sep = "T"}
    \cup {NoTimestamp}
HistogramPosts == [timestamp : Timestamps]
HistogramInputs == SeqsUpTo(HistogramPosts, MaxItems)
MonthKey == <<"2024-01", "2024-02", "2024-03">>

\* ' ' in timestamp, 'UTC' in timestamp, 'T' in timestamp (the T of 'UTC'
\* counts), '+' in timestamp
HasSpace(ts) == ts.sep = " " \/ ts.suffix = " UTC"
HasUTC(ts) == ts.suffix = " UTC"
HasT(ts) == ts.sep = "T" \/ ts.suffix = " UTC"
HasPlus(ts) == ts.suffix = "+00:00"

\* The parsers.  A parsed datetime keeps the wall-clock fields of the string;
\* ok = FALSE stands for the ValueError.
ParseError == [ok |-> FALSE, month |-> 0]
Parsed(ts) == [ok |-> TRUE, month |-> ts.month]
\* datetime.strptime(timestamp, '%Y-%m-%d %H:%M:%S UTC')
strptime_utc(ts) == IF ts.sep = " " /\ ts.suffix = " UTC" THEN Parsed(ts) ELSE ParseError
\* datetime.strptime(timestamp, '%Y-%m-%d %H:%M:%S')
strptime_naive(ts) == IF ts.sep = " " /\ ts.suffix = "" THEN Parsed(ts) ELSE ParseError
\* timestamp.replace('Z', '+00:00')
replace_z(ts) == IF ts.suffix = "Z" THEN [ts EXCEPT !.suffix = "+00:00"] ELSE ts
\* datetime.fromisoformat(timestamp): any separator, an optional numeric offset
fromisoformat(ts) ==
    IF ts.sep # "" /\ ts.suffix \in {"", "+00:00", "-05:00"} THEN Parsed(ts) ELSE ParseError

\* The rule chain of SimpleHistoricalAnalyzer and HackerNewsParquetAnalyzer:
\* the 'UTC' rule first.  (Their inputs here hold no all-digit string.)
parse_utc_first(ts) ==
    IF HasSpace(ts) /\ HasUTC(ts) THEN strptime_utc(ts)
    ELSE IF HasT(ts) THEN fromisoformat(replace_z(ts))
    ELSE IF HasSpace(ts) /\ HasPlus(ts) THEN fromisoformat(ts)
    ELSE IF HasSpace(ts) THEN strptime_naive(ts)
    ELSE fromisoformat(ts)
\* The rule chain of preprocess_trend_charts: the 'T' rule first.
parse_t_first(ts) ==
    IF HasT(ts) THEN fromisoformat(replace_z(ts))
    ELSE IF HasSpace(ts) /\ HasPlus(ts) THEN fromisoformat(ts)
    ELSE IF HasSpace(ts) /\ HasUTC(ts) THEN strptime_utc(ts)
    ELSE IF HasSpace(ts) THEN strptime_naive(ts)
    ELSE fromisoformat(ts)

\* post.get(field, ''): the posts carry the field 'timestamp' only.
TimestampFields == <<"created_at", "timestamp", "published_at", "upload_date">>
GetField(post, field) == IF field = "timestamp" THEN post.timestamp ELSE NoTimestamp

\* for field in timestamp_fields: the first field that is set and parses.
ParseBy(rules, ts) == IF rules = "utc_first" THEN parse_utc_first(ts) ELSE parse_t_first(ts)
RECURSIVE first_parsed(_, _, _)
first_parsed(post, f, rules) ==
    IF f > Len(TimestampFields) THEN ParseError
    ELSE LET timestamp == GetField(post, TimestampFields[f])
         IN  IF timestamp # NoTimestamp /\ ParseBy(rules, timestamp).ok
             THEN ParseBy(rules, timestamp)
             ELSE first_parsed(post, f + 1, rules)
\* The date_obj of one post in each of the three functions.
DateOf(fn, post) ==
    CASE fn = "simple_monthly_mentions" -> first_parsed(post, 1, "utc_first")
      [] fn = "parquet_monthly_mentions" ->
            IF post.timestamp # NoTimestamp
            THEN parse_utc_first(post.timestamp) ELSE ParseError
      [] fn = "calculate_monthly_mentions" -> first_parsed(post, 1, "t_first")

\* monthly_counts[date_obj.strftime('%Y-%m')] += 1 on a defaultdict(int)
Increment(monthly_counts, month_str) ==
    IF month_str \in DOMAIN monthly_counts
    THEN [monthly_counts EXCEPT ![month_str] = @ + 1]
    ELSE [k \in DOMAIN monthly_counts \cup {month_str} |->
             IF k = month_str THEN 1 ELSE monthly_counts[k]]
NoCounts == [k \in {} |-> 0]

RECURSIVE monthly_loop(_, _, _, _)
monthly_loop(posts, i, monthly_counts, fn) ==
    IF i > Len(posts) THEN monthly_counts
    ELSE LET date_obj == DateOf(fn, posts[i])
         IN  monthly_loop(posts, i + 1,
                          IF date_obj.ok
                          THEN Increment(monthly_counts, MonthKey[date_obj.month])
                          ELSE monthly_counts,
                          fn)

\* SimpleHistoricalAnalyzer._calculate_monthly_mentions
simple_monthly_mentions(posts) ==
    monthly_loop(posts, 1, NoCounts, "simple_monthly_mentions")
\* HackerNewsParquetAnalyzer._calculate_monthly_mentions: post['timestamp'] only
parquet_monthly_mentions(posts) ==
    monthly_loop(posts, 1, NoCounts, "parquet_monthly_mentions")
\* preprocess_trend_charts.calculate_monthly_mentions
calculate_monthly_mentions(posts) ==
    monthly_loop(posts, 1, NoCounts, "calculate_monthly_mentions")

InitHistogram == Rest /\ fcall \in {Input("monthly_mentions", x) : x \in HistogramInputs}
ApplySimpleMonthly ==
    /\ fcall.stage = "input"
    /\ fcall.fn = "monthly_mentions"
    /\ fcall' = Done("simple_monthly_mentions", fcall.arg, simple_monthly_mentions(fcall.arg))
    /\ UNCHANGED <<varsV2, varsWM, mon, par, legacy>>
ApplyParquetMonthly ==
    /\ fcall.stage = "input"
    /\ fcall.fn = "monthly_mentions"
    /\ fcall' = Done("parquet_monthly_mentions", fcall.arg, parquet_monthly_mentions(fcall.arg))
    /\ UNCHANGED <<varsV2, varsWM, mon, par, legacy>>
ApplyCalculateMonthly ==
    /\ fcall.stage = "input"
    /\ fcall.fn = "monthly_mentions"
    /\ fcall' = Done("calculate_monthly_mentions", fcall.arg, calculate_monthly_mentions(fcall.arg))
    /\ UNCHANGED <<varsV2, varsWM, mon, par, legacy>>
NextHistogram == ApplySimpleMonthly \/ ApplyParquetMonthly \/ ApplyCalculateMonthly
SpecHistogram == InitHistogram /\ [][NextHistogram]_vars

\* ---- The network calls of one collector pass
\* The pass as the sequence of its network calls ("call") and rate-limit
\* sleeps ("sleep").  ok[0] tells whether the first request (global search,
\* listing, search) succeeds, ok[k] whether the request for target k does.
NetCollectors == {"reddit", "hackernews", "youtube"}
NetInputs ==
    [collector : NetCollectors, use_global : BOOLEAN, targets : 0..MaxTargets,
     ok : [0..MaxTargets -> BOOLEAN]]

\* one requests.get followed by time.sleep(1) inside the try: the sleep is
\* skipped when the request raises.
get_then_sleep(ok) == IF ok THEN <<"call", "sleep">> ELSE <<"call">>

\* RedditCollector._search_global
reddit_search_global(net) == get_then_sleep(net.ok[0])
\* RedditCollector.search_keyword: the global search, then one request per
\* configured subreddit; a failed request continues with the next subreddit.
RECURSIVE reddit_subreddits(_, _)
reddit_subreddits(net, k) ==
    IF k > net.targets THEN <<>>
    ELSE get_then_sleep(net.ok[k]) \o reddit_subreddits(net, k + 1)
reddit_search_keyword(net) ==
    (IF net.use_global THEN reddit_search_global(net) ELSE <<>>)
    \o reddit_subreddits(net, 1)

\* HackerNewsCollector._get_top_stories: the listing request, then for each
\* story id _get_item (which swallows its own failure) and time.sleep(0.1).
RECURSIVE hn_items(_, _)
hn_items(net, k) ==
    IF k > net.targets THEN <<>>
    ELSE <<"call", "sleep">> \o hn_items(net, k + 1)
get_top_stories(net) ==
    <<"call">> \o (IF net.ok[0] THEN hn_items(net, 1) ELSE <<>>)

\* YouTubeCollector.search_keyword: search().list, then videos().list when
\* the search returned video ids; no sleep.
youtube_search_keyword(net) ==
    <<"call">> \o (IF net.ok[0] /\ net.targets > 0 THEN <<"call">> ELSE <<>>)

InitNet == Rest /\ fcall \in {Input("network_pass", x) : x \in NetInputs}
ApplyRedditSearch ==
    /\ fcall.stage = "input"
    /\ fcall.fn = "network_pass"
    /\ fcall.arg.collector = "reddit"
    /\ fcall' = Done("reddit_search_keyword", fcall.arg, reddit_search_keyword(fcall.arg))
    /\ UNCHANGED <<varsV2, varsWM, mon, par, legacy>>
ApplyGetTopStories ==
    /\ fcall.stage = "input"
    /\ fcall.fn = "network_pass"
    /\ fcall.arg.collector = "hackernews"
    /\ fcall' = Done("get_top_stories", fcall.arg, get_top_stories(fcall.arg))
    /\ UNCHANGED <<varsV2, varsWM, mon, par, legacy>>
ApplyYouTubeSearch ==
    /\ fcall.stage = "input"
    /\ fcall.fn = "network_pass"
    /\ fcall.arg.collector = "youtube"
    /\ fcall' = Done("youtube_search_keyword", fcall.arg, youtube_search_keyword(fcall.arg))
    /\ UNCHANGED <<varsV2, varsWM, mon, par, legacy>>
NextNet == ApplyRedditSearch \/ ApplyGetTopStories \/ ApplyYouTubeSearch
SpecNet == InitNet /\ [][NextNet]_vars

\* ---- Interaction scores
\* A post as far as the interaction formulas read it.  comments stands for
\* num_comments (reddit), descendants (hackernews) and comment_count (youtube).
ViewCounts == {0, 99, 250}
ScoredPosts ==
    [platform : {"reddit", "youtube", "hackernews"}, score : 0..MaxEngagement,
     comments : 0..MaxEngagement, view_count : ViewCounts, like_count : 0..MaxEngagement]

\* SimpleHistoricalAnalyzer._get_interaction_count
simple_get_interaction_count(post) ==
    CASE post.platform = "reddit" -> post.score + post.comments
      [] post.platform = "youtube" ->
            (post.view_count \div ViewDivisor) + post.like_count + post.comments
      [] post.platform = "hackernews" -> post.score + post.comments
      [] OTHER -> 0
\* HistoricalAnalysisV2._get_interaction_count
v2_get_interaction_count(post) ==
    CASE post.platform = "reddit" -> post.score + post.comments
      [] post.platform = "youtube" -> post.view_count + post.like_count + post.comments
      [] post.platform = "hackernews" -> post.score + post.comments
      [] OTHER -> 0
\* YouTubeAnalyzer.calculate_interactions on the data frame of one video
calculate_interactions(post) == post.view_count + post.like_count + post.comments

InitScore == Rest /\ fcall \in {Input("interaction_count", x) : x \in ScoredPosts}
ApplySimpleInteraction ==
    /\ fcall.stage = "input"
    /\ fcall.fn = "interaction_count"
    /\ fcall' = Done("simple_get_interaction_count", fcall.arg,
                     simple_get_interaction_count(fcall.arg))
    /\ UNCHANGED <<varsV2, varsWM, mon, par, legacy>>
ApplyV2Interaction ==
    /\ fcall.stage = "input"
    /\ fcall.fn = "interaction_count"
    /\ fcall' = Done("v2_get_interaction_count", fcall.arg,
                     v2_get_interaction_count(fcall.arg))
    /\ UNCHANGED <<varsV2, varsWM, mon, par, legacy>>
ApplyYouTubeInteractions ==
    /\ fcall.stage = "input"
    /\ fcall.fn = "interaction_count"
    /\ fcall.arg.platform = "youtube"
    /\ fcall' = Done("calculate_interactions", fcall.arg, calculate_interactions(fcall.arg))
    /\ UNCHANGED <<varsV2, varsWM, mon, par, legacy>>
NextScore == ApplySimpleInteraction \/ ApplyV2Interaction \/ ApplyYouTubeInteractions
SpecScore == InitScore /\ [][NextScore]_vars

\* ---- The time lower bound of search_keyword
\* A search at instant now over candidates with timestamps up to now; the
\* chat archive has a stored watermark or none.
SinceMsgs == [ts : 0..MaxNow, file : {"a.csv"}]
SinceInputs ==
    {x \in [now : 0..MaxNow, days_back : 1..MaxDaysBack, candidates : SUBSET SinceMsgs,
            watermark : {NoWatermark} \cup {Stored(t) : t \in 0..MaxNow}] :
        /\ \A m \in x.candidates : m.ts <= x.now
        /\ x.watermark.at <= x.now}

\* RedditCollector._convert_submission: None for a submission older than
\* cutoff_date = now - days_back (the keyword test aside).
convert_submission(m, cutoff_date) == IF m.ts < cutoff_date THEN <<>> ELSE <<m>>
RECURSIVE convert_submissions(_, _)
convert_submissions(submissions, cutoff_date) ==
    IF submissions = <<>> THEN <<>>
    ELSE convert_submission(Head(submissions), cutoff_date)
         \o convert_submissions(Tail(submissions), cutoff_date)

InitSince == Rest /\ fcall \in {Input("search_keyword", x) : x \in SinceInputs}
\* DiscordIncrementalCollector.search_keyword(keyword, days_back)
ApplyDiscordSearch ==
    /\ fcall.stage = "input"
    /\ fcall.fn = "search_keyword"
    /\ fcall' = Done("discord_search_keyword", fcall.arg,
                     search_keyword(fcall.arg.watermark, fcall.arg.candidates,
                                    fcall.arg.now, fcall.arg.days_back, {}).posts)
    /\ UNCHANGED <<varsV2, varsWM, mon, par, legacy>>
\* RedditCollector.search_keyword: every submission through _convert_submission
ApplyRedditConvert ==
    /\ fcall.stage = "input"
    /\ fcall.fn = "search_keyword"
    /\ fcall' = Done("reddit_convert_submissions", fcall.arg,
                     convert_submissions(AsList(fcall.arg.candidates),
                                         fcall.arg.now - fcall.arg.days_back))
    /\ UNCHANGED <<varsV2, varsWM, mon, par, legacy>>
\* HackerNewsCollector.search_keyword: filter_by_date_range(posts, days_back)
ApplyDateRangeFilter ==
    /\ fcall.stage = "input"
    /\ fcall.fn = "search_keyword"
    /\ LET posts == AsList(fcall.arg.candidates)
           dated == [i \in 1..Len(posts) |->
                        [ts |-> posts[i].ts, file |-> posts[i].file,
                         recent |-> posts[i].ts >= fcall.arg.now - fcall.arg.days_back]]
       IN  fcall' = Done("filter_by_date_range", fcall.arg, filter_by_date_range(dated))
    /\ UNCHANGED <<varsV2, varsWM, mon, par, legacy>>
NextSince == ApplyDiscordSearch \/ ApplyRedditConvert \/ ApplyDateRangeFilter
SpecSince == InitSince /\ [][NextSince]_vars

(***************************************************************************)
(* Part IV.  EventDrivenService.monitor_keywords                           *)
(***************************************************************************)
\* The posts the platforms may list as hot.
HotPosts == [platform : {"hackernews", "reddit"}, title : {<<"a">>, <<"b">>},
             content : {<<>>}]
MonitoredKeywords == <<<<"a">>>>

\* RealtimeCollectionService._contains_keyword
contains_keyword_realtime(text, keyword, exact_match) ==
    IF text = <<>> \/ keyword = <<>> THEN FALSE
    ELSE IF exact_match THEN SearchWholeWord(LowerStr(text), LowerStr(keyword))
         ELSE Contains(LowerStr(text), LowerStr(keyword))

\* RealtimeCollectionService._find_keyword_mentions: the hot posts that
\* mention the keyword.
find_keyword_mentions(hot_posts, keyword, exact_match) ==
    {post \in hot_posts :
        contains_keyword_realtime(post.title \o <<" ">> \o post.content, keyword, exact_match)}

\* RealtimeCollectionService.search_keywords_in_hot_posts: the mentions, as
\* (keyword, post) pairs.
search_keywords_in_hot_posts(keywords, hot_posts, exact_match) ==
    UNION {{[keyword |-> keywords[k], post |-> post] :
              post \in find_keyword_mentions(hot_posts, keywords[k], exact_match)} :
           k \in 1..Len(keywords)}

AllMentions == [keyword : {MonitoredKeywords[k] : k \in 1..Len(MonitoredKeywords)},
                post : HotPosts]

InitMonitor ==
    /\ InitV2Idle /\ InitWM /\ fcall = NoCall /\ par = NoPasses /\ legacy = NoService
    /\ mon = [stage |-> "idle", hot |-> {}, previous |-> {},
              published |-> [m \in AllMentions |-> 0],
              last_check |-> 0, checksLeft |-> MaxChecks]

\* The platforms' hot lists change between two checks.
HotChange ==
    /\ mon.stage = "idle"
    /\ mon.checksLeft > 0
    /\ \E hot \in SUBSET HotPosts :
          /\ hot # mon.hot
          /\ mon' = [mon EXCEPT !.hot = hot]
    /\ UNCHANGED <<varsV2, varsWM, fcall, par, legacy>>

\* One call of monitor_keywords of the loop of start_monitoring: the hot
\* posts are collected and searched, every mention found is published (unless
\* the broker cannot be reached), the last check time is written.
MonitorKeywords ==
    /\ mon.stage = "idle"
    /\ mon.checksLeft > 0
    /\ \E broker_ok \in BOOLEAN :
         LET notifications == search_keywords_in_hot_posts(MonitoredKeywords, mon.hot, TRUE)
         IN  mon' = [mon EXCEPT
                       !.previous = notifications,
                       !.published = [m \in AllMentions |->
                                         IF m \in notifications /\ broker_ok
                                         THEN @[m] + 1 ELSE @[m]],
                       !.last_check = @ + 1,
                       !.checksLeft = @ - 1]
    /\ UNCHANGED <<varsV2, varsWM, fcall, par, legacy>>

NextMonitor == HotChange \/ MonitorKeywords
SpecMonitor == InitMonitor /\ [][NextMonitor]_vars

(***************************************************************************)
(* Part V.  Collection passes of several platforms, interleaved: the       *)
(* passes of DataCollectionServiceV2 for hackernews and reddit and the     *)
(* Discord pass of DataCollectionService, each split at its file accesses. *)
(***************************************************************************)
V2Jobs == {"hackernews", "reddit"}
Jobs == V2Jobs \cup {"discord"}
ParKeyword == <<"I", "o">>

\* A cache file of one directory for all the platforms.
SharedCacheFile(platform, keyword) == <<"cache", sanitize_keyword(keyword)>>

\* cache_dir / platform / f"{sanitized}.json" (line 89)
cache_file(platform, keyword) == <<platform, sanitize_keyword(keyword)>>

ParCacheFiles == {cache_file(p, ParKeyword) : p \in V2Jobs}
OldEntry == JsonRoundTrip(PlatformResult("hackernews", ParKeyword, TRUE, <<2>>, 0))
ParArchives == {{}, {[ts |-> 1, file |-> "a.csv"]}}
NoEnv == [raises |-> FALSE, fetches |-> <<>>, write |-> "ok"]

InitPar ==
    /\ InitV2Idle /\ InitWM /\ fcall = NoCall /\ mon = NoMonitor /\ legacy = NoService
    /\ \E force \in BOOLEAN, old \in {NoFile, OldEntry}, arch \in ParArchives :
          par = [stage |-> "run",
                 force_refresh |-> force,
                 pc |-> [j \in Jobs |-> "ready"],
                 env |-> [j \in V2Jobs |-> NoEnv],
                 posts |-> <<>>,
                 cache |-> [c \in ParCacheFiles |-> old],
                 first |-> old,
                 wm |-> NoWatermark,
                 archive |-> arch,
                 hist |-> NoFile]

\* Lines 88-101 of _collect_platform_data for platform p: the cache test,
\* then the collection (its fetches answer as env says).
PassBegin(p) ==
    /\ par.stage = "run"
    /\ par.pc[p] = "ready"
    /\ IF UsesCache(par.force_refresh, par.cache[cache_file(p, ParKeyword)])
       THEN par' = [par EXCEPT !.pc[p] = "done"]
       ELSE \E env \in Envs(p) :
               par' = [par EXCEPT !.pc[p] = IF env.raises THEN "done" ELSE "fetched",
                                  !.env[p] = env]
    /\ UNCHANGED <<varsV2, varsWM, fcall, mon, legacy>>

\* Lines 103-116 of _collect_platform_data for platform p: the result dict
\* and _save_cached_data.
PassSave(p) ==
    /\ par.stage = "run"
    /\ par.pc[p] = "fetched"
    /\ LET result == PlatformResult(p, ParKeyword, TRUE,
                                    PassItems(p, par.env[p].fetches), 0)
           file == cache_file(p, ParKeyword)
       IN  par' = [par EXCEPT !.pc[p] = "done",
                              !.cache[file] = save_cached_data(@, result, par.env[p].write)]
    /\ UNCHANGED <<varsV2, varsWM, fcall, mon, legacy>>

\* DataCollectionService._collect_discord_data: collect_new_data and
\* search_keyword, which write the watermark file.
DiscordBegin ==
    /\ par.stage = "run"
    /\ par.pc["discord"] = "ready"
    /\ LET c == collect_new_data(par.wm, par.archive, 1, {})
           r == search_keyword(c.file, par.archive, 1, 1, {})
       IN  par' = [par EXCEPT !.pc["discord"] = "fetched",
                              !.wm = r.file,
                              !.posts = r.posts]
    /\ UNCHANGED <<varsV2, varsWM, fcall, mon, legacy>>

\* _save_historical_cache of the Discord pass (when it found posts).
DiscordSave ==
    /\ par.stage = "run"
    /\ par.pc["discord"] = "fetched"
    /\ par' = [par EXCEPT !.pc["discord"] = "done",
                          !.hist = IF par.posts # <<>>
                                   THEN [total_posts |-> Len(par.posts), posts |-> par.posts]
                                   ELSE @]
    /\ UNCHANGED <<varsV2, varsWM, fcall, mon, legacy>>

HackerNewsBegin == PassBegin("hackernews")
HackerNewsSave == PassSave("hackernews")
RedditBegin == PassBegin("reddit")
RedditSave == PassSave("reddit")
NextPar == HackerNewsBegin \/ HackerNewsSave \/ RedditBegin \/ RedditSave
           \/ DiscordBegin \/ DiscordSave
SpecPar == InitPar /\ [][NextPar]_vars

(***************************************************************************)
(* Part VI.  DataCollectionService (src/data_collection_service.py) with   *)
(* the files it keeps: the historical cache under data/cache/<platform>/   *)
(* and the Parquet files of BuzzScopeStorage (src/src/storage.py).         *)
(***************************************************************************)
\* Keywords and file names are strings, modelled as sequences of pieces; a
\* piece is one character or a run of characters that is never split here.
LegacyKeywords == {<<"a">>, <<"a", " ", "b">>, <<"hackernews", "_", "a", "_", "1", "d">>}
\* the platforms requested (the for loop of collect_keyword_data)
LegacyPlatforms == <<"hackernews", "reddit">>
LegacyPlatformSet == {LegacyPlatforms[i] : i \in 1..Len(LegacyPlatforms)}

\* keyword.replace(' ', '_')
ReplaceSpaces(kw) == [i \in 1..Len(kw) |-> IF kw[i] = " " THEN "_" ELSE kw[i]]
\* f"{platform}_{keyword.replace(' ', '_')}_{days_back}d.json"
historical_cache_name(platform, kw, days_back) ==
    <<platform, "_">> \o ReplaceSpaces(kw) \o <<"_", ToString(days_back), "d", ".json">>
\* f"{keyword}.json"
keyword_file_name(kw) == kw \o <<".json">>

\* _check_historical_data on the files of the historical directory: some
\* platform directory holds <keyword>.json.
check_historical_data(files, kw) ==
    \E platform \in LegacyPlatformSet : <<platform, keyword_file_name(kw)>> \in files
\* _save_historical_cache: the file is created (or rewritten).
save_historical_cache(files, kw, platform, days_back) ==
    files \cup {<<platform, historical_cache_name(platform, kw, days_back)>>}

\* BuzzScopeStorage._get_file_path: <platform>/<platform>_<YYYYMMDD>.parquet
get_file_path(platform, partition_date) == <<platform, partition_date>>
\* BuzzScopeStorage.save_posts: df.to_parquet(file_path) writes the file of
\* the platform and day anew; nothing is written for no posts.
save_posts(parquet, posts, platform, today) ==
    IF posts = {} THEN parquet
    ELSE [parquet EXCEPT ![get_file_path(platform, today)] = posts]
\* BuzzScopeStorage.load_posts(platform): the rows of all the platform's files.
load_posts(parquet, platform) ==
    UNION {parquet[get_file_path(platform, day)] : day \in 0..MaxDay}

\* What the collector of a platform does in a call, and the posts it returns.
LegacyOutcomes == {"posts", "empty", "raises"}
CollectedPosts(platform, kw, outcome) ==
    IF outcome[platform] = "posts"
    THEN {[platform |-> platform, keyword |-> kw]} ELSE {}

\* The for loop of collect_keyword_data (lines 94-151) from platform i on:
\* posts are saved to the storage and then to the historical cache.
RECURSIVE legacy_loop(_, _, _, _, _, _)
legacy_loop(files, i, kw, days_back, outcome, today) ==
    IF i > Len(LegacyPlatforms) THEN files
    ELSE LET platform == LegacyPlatforms[i]
             posts == CollectedPosts(platform, kw, outcome)
             after == IF posts = {} THEN files
                      ELSE [parquet |-> save_posts(files.parquet, posts, platform, today),
                            historical |-> save_historical_cache(files.historical, kw,
                                                                 platform, days_back)]
         IN  legacy_loop(after, i + 1, kw, days_back, outcome, today)

NoLegacyCall == [keyword |-> <<>>, use_historical |-> FALSE, found |-> FALSE,
                 called |-> {}, saved |-> {}]

\* The historical directory is data/cache, where DataCollectionServiceV2
\* keeps <sanitized keyword>.json: such a file may be there already.
InitLegacy ==
    /\ InitV2Idle /\ InitWM /\ fcall = NoCall /\ mon = NoMonitor /\ par = NoPasses
    /\ \E before \in {{}, {<<"hackernews", keyword_file_name(<<"a">>)>>}} :
          legacy = [stage |-> "run",
                    historical |-> before,
                    parquet |-> [f \in LegacyPlatformSet \X (0..MaxDay) |-> {}],
                    today |-> 0,
                    calls |-> 0,
                    last |-> NoLegacyCall]

\* DataCollectionService.collect_keyword_data(keyword, days_back,
\* platforms, exact_match, use_historical), the whole call.
LegacyCollectKeywordData ==
    /\ legacy.stage = "run"
    /\ legacy.calls < MaxCalls
    /\ \E kw \in LegacyKeywords, days_back \in 1..MaxDaysBack, use_historical \in BOOLEAN,
          outcome \in [LegacyPlatformSet -> LegacyOutcomes] :
          LET found == use_historical /\ check_historical_data(legacy.historical, kw)
              files == [parquet |-> legacy.parquet, historical |-> legacy.historical]
              after == IF found THEN files
                       ELSE legacy_loop(files, 1, kw, days_back, outcome, legacy.today)
          IN  legacy' = [legacy EXCEPT
                           !.parquet = after.parquet,
                           !.historical = after.historical,
                           !.calls = @ + 1,
                           !.last = [keyword |-> kw,
                                     use_historical |-> use_historical,
                                     found |-> found,
                                     called |-> IF found THEN {} ELSE LegacyPlatformSet,
                                     saved |-> IF found THEN {}
                                               ELSE {p \in LegacyPlatformSet :
                                                        outcome[p] = "posts"}]]
    /\ UNCHANGED <<varsV2, varsWM, fcall, mon, par>>

\* date.today() changes.
NextDay ==
    /\ legacy.stage = "run"
    /\ legacy.today < MaxDay
    /\ legacy' = [legacy EXCEPT !.today = @ + 1]
    /\ UNCHANGED <<varsV2, varsWM, fcall, mon, par>>

NextLegacy == LegacyCollectKeywordData \/ NextDay
SpecLegacy == InitLegacy /\ [][NextLegacy]_vars

(***************************************************************************)
(* Claims                                                                  *)
(***************************************************************************)
IsEntry(cell) == cell # NoFile /\ cell # Corrupt
ReqFile == sanitize_keyword(req.keyword)
\* The step of the for loop taken for platform number idx.
PlatformStep == pc = "running" /\ idx <= Len(Platforms) /\ idx' # idx
Stale(entry, t) == t - entry.collection_time > MaxAge
NoDuplicateIds(posts) ==
    \A i, j \in 1..Len(posts) : posts[i].post_id = posts[j].post_id => i = j

\* C1: the watermark is written only after the whole pass (fetch, match,
\* dedupe, cache write) completed without error: a pass that ends in error
\* or is abandoned leaves the watermark file as it was before the pass, and
\* within a pass the watermark is never written before the cache is.
C1_WatermarkOnlyAfterSuccess ==
    [][ /\ (dpc # "idle" /\ dpc' = "idle" /\ dpass'.status \in {"error", "abandoned"})
            => wmFile' = dpass.wmBefore
        /\ (dpc # "idle" /\ wmFile' # wmFile) => dpass.wroteCache ]_vars

\* C2: an advance to an instant earlier than the stored watermark is refused
\* and leaves the stored watermark: the stored watermark never decreases.
C2_WatermarkMonotonic ==
    [][ (wmFile.exists /\ wmFile'.exists) => wmFile'.at >= wmFile.at ]_vars

\* C3: with force_refresh false and a non-stale entry in the cache, the call
\* returns that entry as it is stored (status reported as cached), starts no
\* collection pass for the platform and leaves the cache unchanged.
C3_CacheHitAsIs ==
    [][ (/\ PlatformStep
         /\ ~req.force_refresh
         /\ IsEntry(cache[Platforms[idx]][ReqFile])
         /\ ~Stale(cache[Platforms[idx]][ReqFile], now))
        => LET p == Platforms[idx]
               e == cache[p][ReqFile]
               r == results'[p]
           IN  /\ p \in DOMAIN results'
               /\ r.status = "cached"
               /\ r.posts = e.posts
               /\ r.total_posts = e.total_posts
               /\ r.collection_time = e.collection_time
               /\ r.keyword = e.keyword
               /\ r.exact_match = e.exact_match
               /\ r.data_source = e.data_source
               /\ cache' = cache
               /\ invoked' = invoked
               /\ netFailed' = netFailed ]_vars

\* C3 witness: a call answered a platform from a non-empty cached entry
\* without running its pass.
C3_Witness ==
    \E p \in DOMAIN results :
        /\ results[p].status = "cached"
        /\ p \notin invoked
        /\ ~req.force_refresh
        /\ Len(results[p].posts) > 0
        /\ ~Stale(results[p], now)

\* C4: after a force_refresh pass the stored entry holds exactly the items
\* the new pass produced (nothing carried over from the previous entry).
C4_ForceRefreshReplaces ==
    \A p \in DOMAIN results :
        (req.force_refresh /\ results[p].status = "success")
        => /\ IsEntry(cache[p][ReqFile])
           /\ cache[p][ReqFile].posts = JsonRoundTrip(results[p]).posts

\* C5: a stale entry (collection_time older than the max age) is never
\* returned as a cache hit.
C5_StaleNeverHit ==
    \A p \in DOMAIN results :
        results[p].status = "cached" => ~Stale(results[p], now)

\* C6: a pass of a networked platform one of whose fetch strategies hit a
\* network/API failure writes no cache entry: the platform's cache files are
\* the same after the pass as before.
C6_FailedPassWritesNothing ==
    [][ \A p \in (netFailed' \ netFailed) \cap {"reddit", "youtube"} :
            cache'[p] = cache[p] ]_vars

\* C7: whatever platforms raise, every platform's call is made and the
\* report returned holds exactly one entry per platform, an error entry for
\* each platform that raised.
C7_FailureIsolation ==
    /\ pc = "running" => DOMAIN results = {Platforms[i] : i \in 1..(idx - 1)}
    /\ (pc = "idle" /\ req # NoReq) => DOMAIN results = PlatformSet
    /\ \A p \in DOMAIN results :
          /\ p \in raised => results[p].status = "error"
          /\ p \in invoked \/ results[p].status \in {"cached", "error"}
          /\ (p \in invoked /\ p \notin raised) => results[p].status = "success"

\* C7 witness: the report is returned, two platforms raised and a later
\* platform was still collected.
C7_Witness ==
    /\ pc = "idle"
    /\ raised = {"hackernews", "youtube"}
    /\ results["reddit"].status = "success"
    /\ results["discord"].status = "success"
    /\ results["hackernews"].status = "error"

\* C8: put(s, k, e) followed by get(s, k), with no put in between, returns an
\* entry equal to e in every field.
C8_CacheRoundTrip ==
    \A p \in DOMAIN results :
        (p \notin invoked /\ lastPut[p][ReqFile] # NoPut)
        => LET e == lastPut[p][ReqFile]
               r == results[p]
           IN  /\ r.status # "error"
               /\ r.posts = e.posts
               /\ r.total_posts = e.total_posts
               /\ r.collection_time = e.collection_time
               /\ r.exact_match = e.exact_match
               /\ r.keyword = e.keyword

\* C9: an unreadable cache record is treated as no cache entry: with
\* force_refresh false, a new collection pass runs for the platform.
C9_CorruptCacheRefetched ==
    [][ (PlatformStep /\ ~req.force_refresh /\ cache[Platforms[idx]][ReqFile] = Corrupt)
        => Platforms[idx] \in invoked' ]_vars

\* C10: every cache entry holds no two items with the same post_id and its
\* total_posts is the number of its items.
C10_CacheEntriesDeduplicated ==
    \A p \in PlatformSet : \A f \in Files :
        IsEntry(cache[p][f])
        => /\ NoDuplicateIds(cache[p][f].posts)
           /\ cache[p][f].total_posts = Len(cache[p][f].posts)

\* The indices of posts that hold the first occurrence of their post_id.
FirstOccurrences(posts) ==
    {i \in 1..Len(posts) : \A j \in 1..(i - 1) : posts[j].post_id # posts[i].post_id}
\* The elements of posts at the indices in I, in the order of posts.
RECURSIVE Pick(_, _, _)
Pick(posts, I, i) ==
    IF i > Len(posts) THEN <<>>
    ELSE (IF i \in I THEN <<posts[i]>> ELSE <<>>) \o Pick(posts, I, i + 1)

\* C11: dedupe returns exactly the first occurrence of each post_id, in input
\* order: no two output items share an id, every id of the input is in the
\* output, dedupe of the output is the output, and the output is no longer
\* than the input.
C11_DedupeFirstSeen ==
    (fcall.stage = "done" /\ fcall.fn = "remove_duplicates")
    => /\ fcall.out = Pick(fcall.arg, FirstOccurrences(fcall.arg), 1)
       /\ NoDuplicateIds(fcall.out)
       /\ {fcall.out[i].post_id : i \in 1..Len(fcall.out)}
            = {fcall.arg[i].post_id : i \in 1..Len(fcall.arg)}
       /\ remove_duplicates(fcall.out) = fcall.out
       /\ Len(fcall.out) <= Len(fcall.arg)

\* C11 witness: an input with the same id three times, with different
\* content, interleaved with another id, has been deduplicated to two posts.
C11_Witness ==
    /\ fcall.stage = "done"
    /\ fcall.fn = "remove_duplicates"
    /\ Len(fcall.arg) = 3
    /\ fcall.arg[1].post_id = fcall.arg[3].post_id
    /\ fcall.arg[1].body # fcall.arg[3].body
    /\ fcall.arg[2].post_id # fcall.arg[1].post_id
    /\ Len(fcall.out) = 2

\* The keyword occurs in text as a whole word or phrase: at some occurrence
\* the character before it and the character after it are not word characters.
WholeWordIn(text, kw) ==
    \E p \in 1..(Len(text) + 1) :
        /\ OccursAt(text, kw, p)
        /\ ~WordAt(text, p - 1)
        /\ ~WordAt(text, p + Len(kw))
MatcherDone == fcall.stage = "done" /\ fcall.fn \in Matchers

\* C13: in every matcher, a post selected in exact mode is also selected in
\* substring mode, for the same post and keyword.
C13_ExactImpliesSubstring ==
    (MatcherDone /\ fcall.arg.exact_match /\ fcall.out)
    => Match(fcall.fn, fcall.arg, FALSE)

\* C14: in exact mode every matcher answers true exactly when the keyword
\* occurs, case-insensitively, as a whole word or phrase in a text of the
\* post: never when it is only part of a larger word.
C14_ExactIsWholeWord ==
    (MatcherDone /\ fcall.arg.exact_match)
    => (fcall.out <=> \E t \in TextsOf(fcall.fn, fcall.arg) :
                         WholeWordIn(LowerStr(t), LowerStr(fcall.arg.keyword)))

\* C15: in substring mode every matcher answers true exactly when the
\* lower-cased keyword is contained in a lower-cased text of the post.
C15_SubstringIsContainment ==
    (MatcherDone /\ ~fcall.arg.exact_match)
    => (fcall.out <=> \E t \in TextsOf(fcall.fn, fcall.arg) :
                         Contains(LowerStr(t), LowerStr(fcall.arg.keyword)))

\* C12: the match mode recorded with a collection's result is the mode under
\* which its items were selected: every item recorded matches the keyword in
\* the recorded mode (substring when the exact pass fell back to substring).
C12_RecordedModeIsModeUsed ==
    (fcall.stage = "done" /\ fcall.fn = "hn_step")
    => \A i \in 1..Len(fcall.out.posts) :
          extract_keyword_mentions(fcall.out.posts[i], fcall.out.report.keyword,
                                   fcall.out.report.exact_match)

\* C16: an alert is published for a mention only if that mention was not in
\* the result of the previous check: a post matched in two consecutive checks
\* is not notified again by the second.
C16_NotifyOnlyNewItems ==
    [][ \A m \in AllMentions :
          (mon.stage = "idle" /\ mon'.last_check # mon.last_check /\ m \in mon.previous)
          => mon'.published[m] = mon.published[m] ]_vars

\* C17: the report returned by a collection run holds, for every requested
\* source, one entry whose status tells whether the source succeeded, failed
\* or returned no match -- also when historical data already exists and when
\* a requested name is unknown.
C17_ReportCoversEverySource ==
    (fcall.stage = "done" /\ fcall.fn = "collect_keyword_data")
    => \A i \in 1..Len(fcall.arg.platforms) :
          /\ fcall.arg.platforms[i] \in DOMAIN fcall.out.platforms
          /\ fcall.out.platforms[fcall.arg.platforms[i]].status
                \in {"success", "no_data", "error"}

\* What the pass of platform p leaves in its cache file when it runs alone
\* from the initial state, with the environment it met.
AloneCache(p) ==
    IF UsesCache(par.force_refresh, par.first) \/ par.env[p] = NoEnv \/ par.env[p].raises
    THEN par.first
    ELSE save_cached_data(par.first,
                          PlatformResult(p, ParKeyword, TRUE,
                                         PassItems(p, par.env[p].fetches), 0),
                          par.env[p].write)

FirstSeen(posts, author) ==
    CHOOSE i \in 1..Len(posts) :
        posts[i].author = author /\ \A j \in 1..(i - 1) : posts[j].author # author

\* C19: every computation of the top contributors lists each author once
\* with the number of their items, in descending order of that number,
\* authors of equal count in first-seen order, at most 10 entries.
C19_TopContributorsOrder ==
    (fcall.stage = "done" /\ fcall.fn \in {"most_common", "get_top_contributors"})
    => LET out == fcall.out
           posts == fcall.arg
       IN  /\ Len(out) <= TopContributorsLimit
           /\ \A i \in 1..Len(out) : out[i].post_count = CountOf(posts, out[i].author)
           /\ \A i, j \in 1..Len(out) :
                 i < j => \/ out[i].post_count > out[j].post_count
                          \/ /\ out[i].post_count = out[j].post_count
                             /\ FirstSeen(posts, out[i].author) < FirstSeen(posts, out[j].author)

\* The month of the instant a timestamp names, in UTC: naive strings are
\* UTC, and the last evening of a month at offset -05:00 is already the
\* next month.
UtcMonth(ts) == IF ts.suffix = "-05:00" /\ ts.late THEN ts.month + 1 ELSE ts.month
HistogramCount(hist, month_str) == IF month_str \in DOMAIN hist THEN hist[month_str] ELSE 0

\* C20: the monthly histogram counts every item exactly once, in the
\* 'YYYY-MM' bucket of the month of its normalized creation instant, so the
\* counts sum to the number of items.
C20_HistogramCountsEveryItem ==
    (fcall.stage = "done" /\ fcall.fn \in {"simple_monthly_mentions",
                                           "parquet_monthly_mentions",
                                           "calculate_monthly_mentions"})
    => LET posts == fcall.arg
           hist == fcall.out
       IN  (\A i \in 1..Len(posts) : posts[i].timestamp # NoTimestamp)
           => /\ DOMAIN hist \subseteq {MonthKey[m] : m \in 1..Len(MonthKey)}
              /\ \A m \in 1..Len(MonthKey) :
                    HistogramCount(hist, MonthKey[m])
                    = Cardinality({i \in 1..Len(posts) : UtcMonth(posts[i].timestamp) = m})

\* C21: a timestamp of the form 'YYYY-MM-DD HH:MM:SS UTC' is parsed by the
\* UTC rule in every component that parses timestamps: it is never handed
\* to the ISO rule and dropped, so each such item is counted in its month.
C21_UtcRuleBeforeIso ==
    (fcall.stage = "done" /\ fcall.fn \in {"simple_monthly_mentions",
                                           "parquet_monthly_mentions",
                                           "calculate_monthly_mentions"})
    => \A m \in 1..MaxMonth :
          HistogramCount(fcall.out, MonthKey[m])
          >= Cardinality({i \in 1..Len(fcall.arg) :
                             /\ fcall.arg[i].timestamp.suffix = " UTC"
                             /\ fcall.arg[i].timestamp.month = m})

\* C22: within one collector pass no two network calls are issued with no
\* rate-limit delay between them.
C22_DelayBetweenCalls ==
    (fcall.stage = "done" /\ fcall.fn \in {"reddit_search_keyword", "get_top_stories",
                                           "youtube_search_keyword"})
    => \A i \in 1..(Len(fcall.out) - 1) :
          ~(fcall.out[i] = "call" /\ fcall.out[i + 1] = "call")

\* C23: every component that computes the interaction score of an item
\* returns the formula of the item's source: score + comment count for the
\* forum and the link aggregator, view count integer-divided by the fixed
\* divisor plus likes plus comments for the video platform.
C23_InteractionFormulaPerSource ==
    (fcall.stage = "done" /\ fcall.fn \in {"simple_get_interaction_count",
                                           "v2_get_interaction_count",
                                           "calculate_interactions"})
    => LET post == fcall.arg
       IN  fcall.out = IF post.platform = "youtube"
                       THEN (post.view_count \div ViewDivisor) + post.like_count + post.comments
                       ELSE post.score + post.comments

\* C24: a failed cache write is surfaced: when the pass of a platform ran and
\* the entry it produced is not in the cache file afterwards, the result
\* returned for the platform does not have status success.
C24_WriteFailureSurfaced ==
    [][ PlatformStep
        => LET p == Platforms[idx]
           IN  (/\ p \in invoked'
                /\ p \notin raised'
                /\ cache'[p][ReqFile] # JsonRoundTrip(results'[p]))
               => results'[p].status # "success" ]_vars

\* C25: a cache hit returns an entry written for the requested keyword: the
\* keyword stored in a result with status cached equals the keyword of the
\* call up to letter case.
C25_CacheHitSameKeyword ==
    \A p \in DOMAIN results :
        results[p].status = "cached"
        => [i \in 1..Len(results[p].keyword) |-> Lower(results[p].keyword[i])]
           = [i \in 1..Len(req.keyword) |-> Lower(req.keyword[i])]

\* C26: after a call with use_historical that collected and saved posts of
\* some platform, the next call for the same keyword with use_historical
\* finds the saved data and calls no collector.
C26_SavedHistoricalDataIsFound ==
    [][ (/\ legacy.stage = "run"
         /\ legacy'.calls = legacy.calls + 1
         /\ legacy.last.use_historical
         /\ legacy.last.saved # {}
         /\ legacy'.last.use_historical
         /\ legacy'.last.keyword = legacy.last.keyword)
        => (legacy'.last.found /\ legacy'.last.called = {}) ]_vars

\* C30: saving is additive: the posts load_posts returns for a platform are
\* still returned after any later call that saves posts.
C30_SavingIsAdditive ==
    [][ legacy.stage = "run"
        => \A p \in LegacyPlatformSet :
              load_posts(legacy.parquet, p) \subseteq load_posts(legacy'.parquet, p) ]_vars

\* C29: every item search_keyword(keyword, days_back) returns was created
\* no earlier than days_back days before the call, in every collector.
C29_TimeLowerBound ==
    (fcall.stage = "done" /\ fcall.fn \in {"discord_search_keyword",
                                           "reddit_convert_submissions",
                                           "filter_by_date_range"})
    => \A i \in 1..Len(fcall.out) :
          fcall.out[i].ts >= fcall.arg.now - fcall.arg.days_back

\* C27: incremental collection skips no message: after a collect_new_data
\* run, when every run so far could read the whole archive, every message in
\* the archive (all are later than the initial watermark) has been returned
\* by some run, also a message that arrived after an earlier run with a
\* timestamp not later than the instant of that run.
C27_NoMessageSkipped ==
    [][ (collected'.runs = collected.runs + 1 /\ ~collected'.unread)
        => archive \subseteq collected'.returned ]_vars

\* C28: a collect_new_data run writes the watermark if and only if it found
\* a new message: a run that finds none leaves the watermark file as it is,
\* a run that finds one stores the instant of the run.
C28_WatermarkWrittenIffNew ==
    [][ collected'.runs = collected.runs + 1
        => IF collected'.new = {}
           THEN wmFile' = wmFile
           ELSE wmFile' = Stored(clock) ]_vars

\* C28 witness: the last run, later than the stored watermark, found no new
\* message in a non-empty archive and the stored watermark is still the
\* earlier instant.
C28_Witness ==
    /\ collected.runs > 1
    /\ collected.new = {}
    /\ archive # {}
    /\ wmFile.exists
    /\ wmFile.at < collected.at

====
